---- MODULE Spec2Model ----
(***************************************************************************)
(* Registration portal: the profiles table with its constraints, the       *)
(* generate_user_pass_id function, and the browser sessions that drive the *)
(* Dashboard, the RegistrationForm and the ReviewPage components.          *)
(***************************************************************************)
EXTENDS Integers, Sequences, FiniteSets, TLC

\* The greatest value now() takes.
MaxTime == 2

\* Number of distinct outcomes of random() the issuer is allowed to draw for
\* the last character of an identifier (the first five are held at "A").
NumIds == 2

VARIABLES
    profiles,      \* public.profiles, one row per auth.users account, keyed by user_id
    user,          \* useAuth().user of each browser session
    page,          \* the route each session shows
    load,          \* whether the mounted component's loadProfile effect has run
    dashSubmitted, \* Dashboard: profileData?.is_form_submitted
    currentStep,   \* RegistrationForm: currentStep
    step1Form,     \* RegistrationForm: step1Form values
    step2Form,     \* RegistrationForm: step2Form values
    profileData,   \* ReviewPage: profileData
    isSubmitting,  \* ReviewPage: isSubmitting
    dialogOpen,    \* ReviewPage: whether the AlertDialog shows its content
    pc,            \* position of the session's handleSave call
    result,        \* generate_user_pass_id: result
    passIdData,    \* handleSave: passIdData
    toast,         \* the toast raised by the session's latest step, if any
    isUploading,   \* RegistrationForm: isUploading
    uploadPc,      \* position of the session's handleFileUpload call
    api,           \* the latest request sent to the profiles table directly, and its response
    userRole,      \* AdminPanel: userRole
    adminProfiles, \* AdminPanel: profiles, as the user_ids of the rows it holds
    authUsers,     \* auth.users: the accounts of the identity provider
    now            \* now() of the database

vars == <<profiles, user, page, load, dashSubmitted, currentStep, step1Form,
          step2Form, profileData, isSubmitting, dialogOpen, pc, result, passIdData, toast,
          isUploading, uploadPc, api, userRole, adminProfiles, authUsers, now>>

\* What the pages of the registration flow leave alone.
envVars == <<api, userRole, adminProfiles, authUsers, now>>

formVars == <<currentStep, step1Form, step2Form>>
saveVars == <<pc, result, passIdData>>

Users == {"u1", "u2"}
\* The caller of a request without a user's token: auth.uid() is null.
Anon == "anon"
Callers == Users \cup {Anon}
Sessions == {"s1", "s2"}

\* SQL NULL of a TEXT or DATE column, JS null/undefined of a form value.
NULL == "<null>"
\* SQL NULL of user_pass_id, and of the email column (both are character tuples here).
NoText == <<>>
\* SQL NULL of the age column; `profile.age || undefined` also reads 0 as undefined.
NoAge == 0
\* No request has been sent.
NoRequest == [op |-> "none", uid |-> "", target |-> {}, rows |-> {}, error |-> ""]

\* ReviewPage: useState<ProfileData | null>(null)
NoProfile == [form_step |-> -1]

UserEmail(u) ==
    IF u = "u1" THEN <<"a", "@", "x", ".", "c", "o", "m">>
                ELSE <<"b", "@", "x", ".", "c", "o", "m">>

----------------------------------------------------------------------------
\* The profiles table

Categories == {"Open", "OBC", "SC", "ST", "VJNT", "SEBC", "SBC"}
Genders == {"male", "female", "other"}
Roles == {"user", "admin"}

\* handle_new_user: INSERT INTO profiles (user_id, email), every other column at its default.
NewProfile(u) ==
    [ email                 |-> UserEmail(u),
      name                  |-> NULL,
      contact               |-> NULL,
      gender                |-> NULL,
      dob                   |-> NULL,
      age                   |-> NoAge,
      district              |-> NULL,
      category              |-> NULL,
      highest_qualification |-> NULL,
      passport_photo_url    |-> NULL,
      user_pass_id          |-> NoText,
      role                  |-> "user",
      form_step             |-> 0,
      is_form_submitted     |-> FALSE,
      updated_at            |-> now ]

Step1Fields == {"email", "name", "contact", "gender", "dob"}
Step2Fields == {"age", "district", "category", "highest_qualification", "passport_photo_url"}
FormFields == Step1Fields \cup Step2Fields

\* The columns of row r named in fs.
Project(r, fs) == [f \in fs |-> r[f]]

\* category TEXT CHECK (category IN (...)); a NULL passes a CHECK.
CategoryCheck(row) == row.category = NULL \/ row.category \in Categories

\* role TEXT DEFAULT 'user' CHECK (role IN ('user', 'admin'))
RoleCheck(row) == row.role \in Roles

\* The column declared without UNIQUE.
PassIdUnique_NotDeclared(u, id) == TRUE

\* user_pass_id TEXT UNIQUE: no other row holds the same non-null value.
PassIdUnique(u, id) ==
    id = NoText \/ \A v \in DOMAIN profiles \ {u} : profiles[v].user_pass_id # id

\* An update policy without a USING clause.
CanUpdate_Anyone(uid, owner) == TRUE

\* "Users can update their own profile": USING (auth.uid() = user_id)
CanUpdate(uid, owner) == uid = owner

\* An admin rule that also passes a caller whose panel holds userRole = 'admin'.
IsAdmin_FromPanel(uid) ==
    \/ uid \in DOMAIN profiles /\ profiles[uid].role = "admin"
    \/ \E s \in Sessions : user[s] = uid /\ userRole[s] = "admin"

\* EXISTS (SELECT 1 FROM public.profiles WHERE user_id = auth.uid() AND role = 'admin')
IsAdmin(uid) == uid \in DOMAIN profiles /\ profiles[uid].role = "admin"

\* The select policies without "Admins can view all profiles".
CanSelect_OwnOnly(uid, owner) == uid = owner

\* A policy FOR DELETE for the owner of the row.
CanDelete_Own(uid, owner) == uid = owner

\* There is no policy FOR DELETE on the table, and row level security is enabled.
CanDelete(uid, owner) == FALSE

\* "Users can view their own profile" or "Admins can view all profiles"
CanSelect(uid, owner) == uid = owner \/ IsAdmin(uid)

\* "Users can insert their own profile": WITH CHECK (auth.uid() = user_id)
CanInsert(uid, owner) == uid = owner

\* A table without the update_profiles_updated_at trigger.
BeforeUpdate_NoTrigger(row) == row

\* update_profiles_updated_at, BEFORE UPDATE FOR EACH ROW: NEW.updated_at = now()
BeforeUpdate(row) == [row EXCEPT !.updated_at = now]

\* updated_at: new Date().toISOString(), by the clock of the browser, which
\* is not the clock of the database: it is taken to be ahead of every now().
ClientTimes == {MaxTime + 1}

\* The columns of a request together with the updated_at the client sends.
Stamped(columns, at) ==
    [f \in DOMAIN columns \cup {"updated_at"} |->
        IF f = "updated_at" THEN at ELSE columns[f]]

\* The row after SET of the columns of `payload`.
SetColumns(row, payload) ==
    [f \in DOMAIN row |-> IF f \in DOMAIN payload THEN payload[f] ELSE row[f]]

----------------------------------------------------------------------------
\* generate_user_pass_id

\* chars TEXT := 'ABCDEFGHIJKLMNOPQRSTUVWXYZ0123456789'
chars ==
    << "A", "B", "C", "D", "E", "F", "G", "H", "I", "J", "K", "L", "M",
       "N", "O", "P", "Q", "R", "S", "T", "U", "V", "W", "X", "Y", "Z",
       "0", "1", "2", "3", "4", "5", "6", "7", "8", "9" >>

\* substr(chars, n, 1)
substr1(n) == IF n \in 1..Len(chars) THEN <<chars[n]>> ELSE <<>>

\* random() is in [0, 1): it is taken here as n / RandomScale for an n in
\* 0..RandomScale-1, one step per character of chars.
RandomScale == Len(chars)

\* An index counted from 0: floor(random() * length(chars)).
Index_FromZero(n) == (n * Len(chars)) \div RandomScale

\* floor(random() * length(chars) + 1)::INTEGER
Index(n) == (n * Len(chars)) \div RandomScale + 1

\* The values of random() over the six iterations of one FOR loop. The runs
\* explored here draw the least value five times and then one of the NumIds
\* greatest values: the first and the last characters of chars are both drawn.
Draws == {[i \in 1..6 |-> IF i = 6 THEN RandomScale - k ELSE 0] : k \in 1..NumIds}

\* FOR i IN 1..6 LOOP result := result || substr(chars, ..., 1); END LOOP, from iteration i on.
RECURSIVE ForLoop(_, _, _)
ForLoop(res, i, draw) ==
    IF i > 6 THEN res ELSE ForLoop(res \o substr1(Index(draw[i])), i + 1, draw)

\* result := ''; followed by the FOR loop.
Generate(draw) == ForLoop(<<>>, 1, draw)

\* EXISTS(SELECT 1 FROM public.profiles WHERE user_pass_id = result)
IdExists(id) == \E u \in DOMAIN profiles : profiles[u].user_pass_id = id

----------------------------------------------------------------------------
\* RegistrationForm: schemas and form values

\* z.string().email(): one "@" with a non-empty local part, and a dot inside the domain.
IsEmail(e) ==
    \E i \in 2..Len(e) :
        /\ e[i] = "@"
        /\ \A j \in 1..Len(e) : e[j] = "@" => j = i
        /\ \E k \in (i + 2)..(Len(e) - 1) : e[k] = "."

\* A schema without the rule on contact.
Step1Valid_NoContactRule(d) ==
    /\ IsEmail(d.email)
    /\ d.name # NULL /\ Len(d.name) >= 2
    /\ d.gender \in Genders
    /\ d.dob # NULL /\ Len(d.dob) >= 1

\* step1Schema
Step1Valid(d) ==
    /\ IsEmail(d.email)
    /\ d.name # NULL /\ Len(d.name) >= 2
    /\ d.contact # NULL /\ Len(d.contact) >= 10
    /\ d.gender \in Genders
    /\ d.dob # NULL /\ Len(d.dob) >= 1

\* A Step-2 schema without the bounds of age.
Step2Valid_NoAgeRule(d) ==
    /\ d.district # NULL /\ Len(d.district) >= 1
    /\ d.category \in Categories
    /\ d.highest_qualification # NULL /\ Len(d.highest_qualification) >= 1

\* step2Schema
Step2Valid(d) ==
    /\ d.age >= 18 /\ d.age <= 100
    /\ d.district # NULL /\ Len(d.district) >= 1
    /\ d.category \in Categories
    /\ d.highest_qualification # NULL /\ Len(d.highest_qualification) >= 1
    /\ d.passport_photo_url # NULL

\* step1Form defaultValues
Step1Defaults(u) ==
    [email |-> UserEmail(u), name |-> "", contact |-> "", gender |-> NULL, dob |-> ""]

\* step2Form defaultValues
Step2Defaults ==
    [ age |-> NoAge, district |-> "", category |-> NULL,
      highest_qualification |-> "", passport_photo_url |-> "" ]

\* value || ''
OrEmpty(v) == IF v = NULL THEN "" ELSE v

\* step1Form.reset({...}) in loadProfile
Step1FromProfile(p, u) ==
    [ email   |-> IF p.email # NoText THEN p.email ELSE UserEmail(u),
      name    |-> OrEmpty(p.name),
      contact |-> OrEmpty(p.contact),
      gender  |-> p.gender,
      dob     |-> OrEmpty(p.dob) ]

\* step2Form.reset({...}) in loadProfile
Step2FromProfile(p) ==
    [ age                   |-> p.age,
      district              |-> OrEmpty(p.district),
      category              |-> p.category,
      highest_qualification |-> OrEmpty(p.highest_qualification),
      passport_photo_url    |-> OrEmpty(p.passport_photo_url) ]

\* What a user types into Step 1 (the email input is disabled).
Step1Inputs ==
    { [name |-> "Asha Rao", contact |-> "9876543210", gender |-> "female", dob |-> "2000-01-01"],
      [name |-> "Asha R",   contact |-> "9876543210", gender |-> "female", dob |-> "2000-01-01"],
      [name |-> "Asha Rao", contact |-> "98765",      gender |-> "female", dob |-> "2000-01-01"] }

\* What a user types into Step 2 (the photo reference is set by the upload).
Step2Inputs ==
    { [age |-> 24, district |-> "Pune",   category |-> "OBC", highest_qualification |-> "B.Sc."],
      [age |-> 17, district |-> "Pune",   category |-> "OBC", highest_qualification |-> "B.Sc."] }

\* toast({title, description}); id is the identifier quoted in the description, if any.
Toast(title, description) == [title |-> title, description |-> description, id |-> NoText]
NoToast == Toast("", "")

\* error.message of a failed request
NetworkError == "Failed to fetch"
DuplicateKey == "duplicate key value violates unique constraint"

----------------------------------------------------------------------------
\* Browser sessions

\* The sessions of signed-in users on the dashboard, and a database that has
\* answered no request yet.
InitSessions ==
    /\ user \in {f \in [Sessions -> Users] : f["s1"] = "u1"}
    /\ page = [s \in Sessions |-> "/"]
    /\ load = [s \in Sessions |-> "pending"]
    /\ dashSubmitted = [s \in Sessions |-> FALSE]
    /\ currentStep = [s \in Sessions |-> 1]
    /\ step1Form = [s \in Sessions |-> Step1Defaults(user[s])]
    /\ step2Form = [s \in Sessions |-> Step2Defaults]
    /\ profileData = [s \in Sessions |-> NoProfile]
    /\ isSubmitting = [s \in Sessions |-> FALSE]
    /\ dialogOpen = [s \in Sessions |-> FALSE]
    /\ pc = [s \in Sessions |-> "idle"]
    /\ result = [s \in Sessions |-> NoText]
    /\ passIdData = [s \in Sessions |-> NoText]
    /\ toast = [s \in Sessions |-> NoToast]
    /\ isUploading = [s \in Sessions |-> FALSE]
    /\ uploadPc = [s \in Sessions |-> "idle"]
    /\ api = NoRequest
    /\ userRole = [s \in Sessions |-> NULL]
    /\ adminProfiles = [s \in Sessions |-> {}]
    /\ now = 0

\* Every account exists and has the profile handle_new_user inserted for it.
Init ==
    /\ InitSessions
    /\ authUsers = Users
    /\ profiles = [u \in Users |-> NewProfile(u)]

\* navigate(route): the shown component unmounts and the route's component
\* mounts with its useState/useForm initial values; its effect is yet to run.
Navigate(s, route) ==
    /\ page' = [page EXCEPT ![s] = route]
    /\ load' = [load EXCEPT ![s] = "pending"]
    /\ dashSubmitted' = [dashSubmitted EXCEPT ![s] = FALSE]
    /\ currentStep' = [currentStep EXCEPT ![s] = 1]
    /\ step1Form' = [step1Form EXCEPT ![s] = Step1Defaults(user[s])]
    /\ step2Form' = [step2Form EXCEPT ![s] = Step2Defaults]
    /\ profileData' = [profileData EXCEPT ![s] = NoProfile]
    /\ isSubmitting' = [isSubmitting EXCEPT ![s] = FALSE]
    /\ dialogOpen' = [dialogOpen EXCEPT ![s] = FALSE]
    /\ isUploading' = [isUploading EXCEPT ![s] = FALSE]

\* The step raises no toast.
Quiet(s) == toast' = [toast EXCEPT ![s] = NoToast]

pageVars == <<page, load, dashSubmitted, currentStep, step1Form, step2Form,
              profileData, isSubmitting, dialogOpen, isUploading>>

\* Dashboard: loadProfile
DashLoad(s) ==
    /\ page[s] = "/" /\ load[s] = "pending"
    /\ \E ok \in BOOLEAN :
          dashSubmitted' = [dashSubmitted EXCEPT ![s] =
                               ok /\ profiles[user[s]].is_form_submitted]
    /\ load' = [load EXCEPT ![s] = "done"]
    /\ Quiet(s)
    /\ UNCHANGED <<profiles, user, uploadPc, envVars, page, formVars, profileData, isSubmitting, dialogOpen, isUploading, saveVars>>

\* Dashboard: handleRegisterClick, on the button shown unless profileData?.is_form_submitted
HandleRegisterClick(s) ==
    /\ page[s] = "/" /\ load[s] = "done" /\ ~dashSubmitted[s]
    /\ Navigate(s, "/register")
    /\ Quiet(s)
    /\ UNCHANGED <<profiles, user, uploadPc, envVars, saveVars>>

\* setCurrentStep(profile.form_step || 1)
StepOf(profile) == IF profile.form_step = 0 THEN 1 ELSE profile.form_step

\* RegistrationForm: loadProfile; ok: the select returned the profile.
RegLoadWith(s, ok) ==
    /\ page[s] = "/register" /\ load[s] = "pending"
    /\ load' = [load EXCEPT ![s] = "done"]
    /\ LET profile == profiles[user[s]] IN
       IF ok
       THEN /\ step1Form' = [step1Form EXCEPT ![s] = Step1FromProfile(profile, user[s])]
            /\ step2Form' = [step2Form EXCEPT ![s] = Step2FromProfile(profile)]
            /\ currentStep' = [currentStep EXCEPT ![s] = StepOf(profile)]
       ELSE UNCHANGED formVars
    /\ Quiet(s)
    /\ UNCHANGED <<profiles, user, uploadPc, envVars, page, dashSubmitted, profileData, isSubmitting, dialogOpen, isUploading, saveVars>>

RegLoad(s) == \E ok \in BOOLEAN : RegLoadWith(s, ok)

\* Whether the persistence layer accepts, for caller uid, the write that leaves
\* `row` as the profile of `owner`: the insert and update policies, the CHECK
\* constraints and the UNIQUE constraint.
WriteAccepted(uid, owner, row) ==
    /\ CanUpdate(uid, owner)
    /\ CategoryCheck(row) /\ RoleCheck(row)
    /\ PassIdUnique(owner, row.user_pass_id)

\* An upsert that fills a column only while the column is as created, so that
\* the first save of each column wins.
Upsert_FirstWriteWins(uid, payload) ==
    LET old == profiles[payload.user_id]
        kept == [f \in DOMAIN payload.columns |->
                    IF f \in DOMAIN old /\ old[f] # NewProfile(payload.user_id)[f]
                    THEN old[f] ELSE payload.columns[f]]
    IN  [error |-> "", rows |-> [profiles EXCEPT ![payload.user_id] =
                                    BeforeUpdate(SetColumns(old, kept))]]

\* An upsert that replaces the row: a column the payload leaves out goes back
\* to its default.
Upsert_ReplacesRow(uid, payload) ==
    [error |-> "", rows |-> [profiles EXCEPT ![payload.user_id] =
        BeforeUpdate(SetColumns(NewProfile(payload.user_id), payload.columns))]]

\* The upsert of saveStep: the row of payload.user_id gets the payload's columns.
Upsert(uid, payload) ==
    LET row == BeforeUpdate(SetColumns(profiles[payload.user_id], payload.columns)) IN
    IF CanInsert(uid, payload.user_id) /\ WriteAccepted(uid, payload.user_id, row)
    THEN [error |-> "", rows |-> [profiles EXCEPT ![payload.user_id] = row]]
    ELSE [error |-> "new row violates a policy or constraint", rows |-> profiles]

\* A payload that leaves form_step out.
StepColumns_NoFormStep(stepData, stepNumber) == stepData

\* A payload whose step marker is 1 whichever step is saved.
StepColumns_AlwaysStep1(stepData, stepNumber) ==
    [f \in DOMAIN stepData \cup {"form_step"} |->
        IF f = "form_step" THEN 1 ELSE stepData[f]]

\* { ...stepData, form_step: stepNumber } (user_id is the row's key, updated_at the trigger's)
StepColumns(stepData, stepNumber) ==
    [f \in DOMAIN stepData \cup {"form_step"} |->
        IF f = "form_step" THEN stepNumber ELSE stepData[f]]

\* A save that writes the step marker in a request of its own, which still
\* goes through when the request carrying the fields fails.
SaveStep_NotAtomic(s, stepData, stepNumber, ok) ==
    /\ profiles' = [profiles EXCEPT ![user[s]] =
                       IF ok THEN SetColumns(@, StepColumns(stepData, stepNumber))
                             ELSE [@ EXCEPT !.form_step = stepNumber]]
    /\ toast' = [toast EXCEPT ![s] =
                   IF ok THEN Toast("Success", "saved") ELSE Toast("Error", NetworkError)]

\* saveStep(stepData, stepNumber); ok: the request reached the persistence layer.
SaveStep(s, stepData, stepNumber, ok) ==
    \E at \in ClientTimes :
    LET payload == [user_id |-> user[s],
                    columns |-> Stamped(StepColumns(stepData, stepNumber), at)]
        res == IF ok THEN Upsert(user[s], payload)
                     ELSE [error |-> NetworkError, rows |-> profiles]
    IN  /\ profiles' = res.rows
        /\ toast' = [toast EXCEPT ![s] =
                       IF res.error = ""
                       THEN Toast("Success", IF stepNumber = 1
                                             THEN "Step 1 saved successfully"
                                             ELSE "Step 2 saved successfully")
                       ELSE Toast("Error", res.error)]

\* The Step-1 form values once the user has typed `typed`.
Step1Data(s, typed) ==
    [f \in Step1Fields |-> IF f = "email" THEN step1Form[s].email ELSE typed[f]]

\* The Step-2 form values once the user has typed `typed`.
Step2Data(s, typed) ==
    [f \in Step2Fields |->
        IF f = "passport_photo_url" THEN step2Form[s].passport_photo_url ELSE typed[f]]

\* A Step-2 save that sends the Step-2 values alone.
CompleteData_Step2Only(s, data) == data

\* onStep2Submit: { ...step1Form.getValues(), ...data }
CompleteData(s, data) ==
    [f \in FormFields |-> IF f \in Step2Fields THEN data[f] ELSE step1Form[s][f]]

\* step1Form.handleSubmit(onStep1Submit) on the values the user typed
OnStep1Submit(s, typed) ==
    /\ page[s] = "/register" /\ load[s] = "done" /\ currentStep[s] = 1
    /\ LET data == Step1Data(s, typed) IN
       /\ step1Form' = [step1Form EXCEPT ![s] = data]
       /\ IF Step1Valid(data)
          THEN /\ \E ok \in BOOLEAN : SaveStep(s, data, 1, ok)
               /\ currentStep' = [currentStep EXCEPT ![s] = 2]
          ELSE Quiet(s) /\ UNCHANGED <<profiles, currentStep>>
    /\ UNCHANGED <<user, uploadPc, envVars, page, load, dashSubmitted, step2Form, profileData,
                   isSubmitting, dialogOpen, isUploading, saveVars>>

\* step2Form.handleSubmit(onStep2Submit) on the values the user typed
OnStep2Submit(s, typed) ==
    /\ page[s] = "/register" /\ load[s] = "done" /\ currentStep[s] = 2
    /\ LET data == Step2Data(s, typed)
           completeData == CompleteData(s, data)
       IN IF Step2Valid(data)
          THEN /\ \E ok \in BOOLEAN : SaveStep(s, completeData, 2, ok)
               /\ Navigate(s, "/review")
          ELSE /\ step2Form' = [step2Form EXCEPT ![s] = data]
               /\ Quiet(s)
               /\ UNCHANGED <<profiles, page, load, dashSubmitted, currentStep,
                              step1Form, profileData, isSubmitting, dialogOpen, isUploading>>
    /\ UNCHANGED <<user, uploadPc, envVars, saveVars>>

\* A Previous button that also records the step it goes back to.
Previous_Saves(s) ==
    /\ page[s] = "/register" /\ load[s] = "done" /\ currentStep[s] = 2
    /\ currentStep' = [currentStep EXCEPT ![s] = 1]
    /\ profiles' = [profiles EXCEPT ![user[s]].form_step = 1]
    /\ Quiet(s)
    /\ UNCHANGED <<user, uploadPc, envVars, page, load, dashSubmitted, step1Form, step2Form,
                   profileData, isSubmitting, dialogOpen, isUploading, saveVars>>

\* The Previous button of Step 2: setCurrentStep(1)
Previous(s) ==
    /\ page[s] = "/register" /\ load[s] = "done" /\ currentStep[s] = 2
    /\ currentStep' = [currentStep EXCEPT ![s] = 1]
    /\ Quiet(s)
    /\ UNCHANGED <<profiles, user, uploadPc, envVars, page, load, dashSubmitted, step1Form, step2Form,
                   profileData, isSubmitting, dialogOpen, isUploading, saveVars>>

\* "Back to Dashboard" of the form: navigate('/')
BackToDashboard(s) ==
    /\ page[s] = "/register" /\ load[s] = "done"
    /\ Navigate(s, "/")
    /\ Quiet(s)
    /\ UNCHANGED <<profiles, user, uploadPc, envVars, saveVars>>

\* ReviewPage: loadProfile
ReviewLoad(s) ==
    /\ page[s] = "/review" /\ load[s] = "pending"
    /\ \E ok \in BOOLEAN :
          LET profile == profiles[user[s]] IN
          IF ~ok
          THEN /\ toast' = [toast EXCEPT ![s] = Toast("Error", "Failed to load profile data")]
               /\ Navigate(s, "/register")
          ELSE IF profile.form_step < 2
          THEN /\ toast' = [toast EXCEPT ![s] =
                              Toast("Incomplete Form", "Please complete all steps first")]
               /\ Navigate(s, "/register")
          ELSE /\ profileData' = [profileData EXCEPT ![s] = profile]
               /\ load' = [load EXCEPT ![s] = "done"]
               /\ Quiet(s)
               /\ UNCHANGED <<page, dashSubmitted, formVars, isSubmitting, dialogOpen, isUploading>>
    /\ UNCHANGED <<profiles, user, uploadPc, envVars, saveVars>>

\* The back and "Edit Information" buttons of the review: navigate('/register')
EditInformation(s) ==
    /\ page[s] = "/review" /\ profileData[s] # NoProfile /\ pc[s] = "idle"
    /\ Navigate(s, "/register")
    /\ Quiet(s)
    /\ passIdData' = [passIdData EXCEPT ![s] = NoText]
    /\ UNCHANGED <<profiles, user, uploadPc, envVars, pc, result>>

\* The update that sets the flag and leaves the identifier to a later write.
SubmitColumns_FlagOnly(id) == [is_form_submitted |-> TRUE]

\* An update that marks the form as completed as well.
SubmitColumns_WithStep(id) ==
    [is_form_submitted |-> TRUE, user_pass_id |-> id, form_step |-> 2]

\* The payload of the update in handleSave (updated_at is set by the trigger).
SubmitColumns(id) == [is_form_submitted |-> TRUE, user_pass_id |-> id]

\* The update relying on the issuer's existence check alone.
Update_CheckThenWrite(uid, owner, columns) ==
    IF ~CanUpdate(uid, owner)
    THEN [error |-> "", rows |-> profiles]
    ELSE [error |-> "", rows |-> [profiles EXCEPT ![owner] = SetColumns(@, columns)]]

\* supabase.from('profiles').update(columns).eq('user_id', owner) for caller uid
Update(uid, owner, columns) ==
    LET row == BeforeUpdate(SetColumns(profiles[owner], columns)) IN
    IF ~CanUpdate(uid, owner)
    THEN [error |-> "", rows |-> profiles]
    ELSE IF ~PassIdUnique(owner, row.user_pass_id)
    THEN [error |-> DuplicateKey, rows |-> profiles]
    ELSE IF ~(CategoryCheck(row) /\ RoleCheck(row))
    THEN [error |-> "new row violates check constraint", rows |-> profiles]
    ELSE [error |-> "", rows |-> [profiles EXCEPT ![owner] = row]]

\* ReviewPage: the "Save & Submit" button, disabled={isSubmitting}, is the
\* AlertDialogTrigger: the dialog shows its warning and its two buttons.
OpenDialog(s) ==
    /\ page[s] = "/review" /\ profileData[s] # NoProfile
    /\ ~isSubmitting[s] /\ ~dialogOpen[s]
    /\ dialogOpen' = [dialogOpen EXCEPT ![s] = TRUE]
    /\ Quiet(s)
    /\ UNCHANGED <<profiles, user, uploadPc, envVars, page, load, dashSubmitted, formVars,
                   profileData, isSubmitting, isUploading, saveVars>>

\* ReviewPage: AlertDialogCancel closes the dialog and calls nothing.
CancelDialog(s) ==
    /\ dialogOpen[s]
    /\ dialogOpen' = [dialogOpen EXCEPT ![s] = FALSE]
    /\ Quiet(s)
    /\ UNCHANGED <<profiles, user, uploadPc, envVars, page, load, dashSubmitted, formVars,
                   profileData, isSubmitting, isUploading, saveVars>>

\* A handleSave that a button outside the dialog starts.
HandleSave_NoDialog(s) ==
    /\ page[s] = "/review" /\ profileData[s] # NoProfile
    /\ ~isSubmitting[s] /\ pc[s] = "idle"
    /\ dialogOpen' = [dialogOpen EXCEPT ![s] = FALSE]
    /\ isSubmitting' = [isSubmitting EXCEPT ![s] = TRUE]
    /\ pc' = [pc EXCEPT ![s] = "rpc"]
    /\ passIdData' = [passIdData EXCEPT ![s] = NoText]
    /\ Quiet(s)
    /\ UNCHANGED <<profiles, user, uploadPc, envVars, page, load, dashSubmitted, formVars,
                   profileData, isUploading, result>>

\* ReviewPage: AlertDialogAction onClick={handleSave}, a button of the open
\* dialog, which closes with the click.
HandleSave(s) ==
    /\ page[s] = "/review" /\ profileData[s] # NoProfile
    /\ dialogOpen[s]
    /\ ~isSubmitting[s] /\ pc[s] = "idle"
    /\ dialogOpen' = [dialogOpen EXCEPT ![s] = FALSE]
    /\ isSubmitting' = [isSubmitting EXCEPT ![s] = TRUE]
    /\ pc' = [pc EXCEPT ![s] = "rpc"]
    /\ passIdData' = [passIdData EXCEPT ![s] = NoText]
    /\ Quiet(s)
    /\ UNCHANGED <<profiles, user, uploadPc, envVars, page, load, dashSubmitted, formVars,
                   profileData, isUploading, result>>

\* generate_user_pass_id: the first FOR loop
GenFirst(s) ==
    /\ pc[s] = "rpc"
    /\ \E draw \in Draws : result' = [result EXCEPT ![s] = Generate(draw)]
    /\ pc' = [pc EXCEPT ![s] = "while"]
    /\ UNCHANGED <<profiles, user, uploadPc, envVars, pageVars, passIdData, toast>>

\* An issuer without the WHILE loop: RETURN result after the first FOR loop.
GenWhile_NoCheck(s) ==
    /\ pc[s] = "while"
    /\ passIdData' = [passIdData EXCEPT ![s] = result[s]]
    /\ pc' = [pc EXCEPT ![s] = "update"]
    /\ result' = [result EXCEPT ![s] = NoText]
    /\ UNCHANGED <<profiles, user, uploadPc, envVars, pageVars, toast>>

\* generate_user_pass_id: one test of the WHILE condition, then either the
\* loop body or RETURN result, which handleSave receives as passIdData.
GenWhile(s) ==
    /\ pc[s] = "while"
    /\ IF IdExists(result[s])
       THEN /\ \E draw \in Draws : result' = [result EXCEPT ![s] = Generate(draw)]
            /\ UNCHANGED <<pc, passIdData>>
       ELSE /\ passIdData' = [passIdData EXCEPT ![s] = result[s]]
            /\ pc' = [pc EXCEPT ![s] = "update"]
            /\ result' = [result EXCEPT ![s] = NoText]
    /\ UNCHANGED <<profiles, user, uploadPc, envVars, pageVars, toast>>

\* A catch block that calls the issuer again instead of reporting.
Caught_Retries(s, message) ==
    /\ toast' = [toast EXCEPT ![s] = NoToast]
    /\ pc' = [pc EXCEPT ![s] = "rpc"]
    /\ UNCHANGED <<page, load, dashSubmitted, formVars, profileData, isSubmitting, dialogOpen, isUploading>>

\* handleSave without its finally block.
Caught_NoFinally(s, message) ==
    /\ toast' = [toast EXCEPT ![s] = Toast("Error", message)]
    /\ pc' = [pc EXCEPT ![s] = "idle"]
    /\ UNCHANGED <<page, load, dashSubmitted, formVars, profileData, isSubmitting, dialogOpen, isUploading>>

\* handleSave: catch (error) { toast } finally { setIsSubmitting(false) }
Caught(s, message) ==
    /\ toast' = [toast EXCEPT ![s] = Toast("Error", message)]
    /\ isSubmitting' = [isSubmitting EXCEPT ![s] = FALSE]
    /\ pc' = [pc EXCEPT ![s] = "idle"]
    /\ UNCHANGED <<page, load, dashSubmitted, formVars, profileData, dialogOpen, isUploading>>

\* handleSave: if (passIdError) throw passIdError
RpcError(s) ==
    /\ pc[s] \in {"rpc", "while"}
    /\ Caught(s, NetworkError)
    /\ result' = [result EXCEPT ![s] = NoText]
    /\ UNCHANGED <<profiles, user, uploadPc, envVars, passIdData>>

\* handleSave: the profile update and what follows it; ok: the request
\* reached the persistence layer.
UpdateProfile(s) ==
    /\ pc[s] = "update"
    /\ \E ok \in BOOLEAN, at \in ClientTimes :
          LET res == IF ok THEN Update(user[s], user[s],
                                       Stamped(SubmitColumns(passIdData[s]), at))
                           ELSE [error |-> NetworkError, rows |-> profiles]
          IN  /\ profiles' = res.rows
              /\ IF res.error # ""
                 THEN Caught(s, res.error) /\ UNCHANGED passIdData
                 ELSE /\ toast' = [toast EXCEPT ![s] =
                                     [title |-> "Success!",
                                      description |-> "Registration completed successfully!",
                                      id |-> passIdData[s]]]
                      /\ pc' = [pc EXCEPT ![s] = "idle"]
                      /\ passIdData' = [passIdData EXCEPT ![s] = NoText]
                      /\ Navigate(s, "/")
    /\ UNCHANGED <<user, uploadPc, envVars, result>>

\* file.size > 1024 * 1024
MaxFileSize == 1024 * 1024

\* The sizes of the files a user picks: one at the limit, one just over it.
Files == {MaxFileSize, MaxFileSize + 1}

\* getPublicUrl(filePath) of the photo stored as `${user.id}.${fileExt}`
PublicUrl(u) == "passport-photos/" \o u \o ".jpg"

\* The file input's onChange, up to the await of handleFileUpload. The input
\* is disabled while isUploading; one upload per session is in flight at most.
OnFileChange(s, file) ==
    /\ page[s] = "/register" /\ load[s] = "done" /\ currentStep[s] = 2
    /\ ~isUploading[s] /\ uploadPc[s] = "idle"
    /\ IF file > MaxFileSize
       THEN /\ toast' = [toast EXCEPT ![s] =
                            Toast("Error", "File size must be less than 1MB")]
            /\ UNCHANGED <<isUploading, uploadPc>>
       ELSE /\ isUploading' = [isUploading EXCEPT ![s] = TRUE]
            /\ uploadPc' = [uploadPc EXCEPT ![s] = "upload"]
            /\ Quiet(s)
    /\ UNCHANGED <<profiles, user, envVars, page, load, dashSubmitted, formVars, profileData,
                   isSubmitting, dialogOpen, saveVars>>

\* handleFileUpload from the return of storage.upload on; ok: it stored the
\* file. A form that was unmounted meanwhile is not the one the handler
\* holds: only the toast reaches the session.
UploadReturns(s, ok) ==
    /\ uploadPc[s] = "upload"
    /\ uploadPc' = [uploadPc EXCEPT ![s] = "idle"]
    /\ step2Form' = IF ok /\ isUploading[s]
                    THEN [step2Form EXCEPT ![s].passport_photo_url = PublicUrl(user[s])]
                    ELSE step2Form
    /\ toast' = [toast EXCEPT ![s] =
                   IF ok THEN Toast("Success", "Photo uploaded successfully")
                         ELSE Toast("Error", NetworkError)]
    /\ isUploading' = [isUploading EXCEPT ![s] = FALSE]
    /\ UNCHANGED <<profiles, user, envVars, page, load, dashSubmitted, currentStep, step1Form,
                   profileData, isSubmitting, dialogOpen, saveVars>>

\* What one browser session can do next, photo uploads apart.
Next ==
    \E s \in Sessions :
        \/ DashLoad(s)
        \/ HandleRegisterClick(s)
        \/ RegLoad(s)
        \/ \E typed \in Step1Inputs : OnStep1Submit(s, typed)
        \/ \E typed \in Step2Inputs : OnStep2Submit(s, typed)
        \/ Previous(s)
        \/ BackToDashboard(s)
        \/ ReviewLoad(s)
        \/ EditInformation(s)
        \/ OpenDialog(s)
        \/ CancelDialog(s)
        \/ HandleSave(s)
        \/ GenFirst(s)
        \/ GenWhile(s)
        \/ RpcError(s)
        \/ UpdateProfile(s)

Spec == Init /\ [][Next]_vars

\* The sessions that upload photos.
Uploaders == {"s1"}

\* The portal used from the uploading session alone, photo uploads included.
NextUpload ==
    \E s \in Uploaders :
        \/ DashLoad(s)
        \/ HandleRegisterClick(s)
        \/ RegLoad(s)
        \/ \E typed \in Step1Inputs : OnStep1Submit(s, typed)
        \/ \E typed \in Step2Inputs : OnStep2Submit(s, typed)
        \/ Previous(s)
        \/ BackToDashboard(s)
        \/ ReviewLoad(s)
        \/ EditInformation(s)
        \/ OpenDialog(s)
        \/ CancelDialog(s)
        \/ HandleSave(s)
        \/ GenFirst(s)
        \/ GenWhile(s)
        \/ RpcError(s)
        \/ UpdateProfile(s)
        \/ \E file \in Files : OnFileChange(s, file)
        \/ \E ok \in BOOLEAN : UploadReturns(s, ok)

SpecUpload == Init /\ [][NextUpload]_vars

----------------------------------------------------------------------------
\* Requests sent to the profiles table with a signed-in user's token, past the pages

\* The columns such a request sets.
ApiColumns ==
    { [role |-> "admin"], [role |-> "user"], [is_form_submitted |-> TRUE] }

appVars == <<user, page, load, dashSubmitted, currentStep, step1Form, step2Form,
             profileData, isSubmitting, dialogOpen, pc, result, passIdData, toast,
             isUploading, uploadPc>>

panelVars == <<userRole, adminProfiles>>

\* select * from profiles where user_id in (filter), as uid: the rows the
\* select policies let through.
ApiSelect(uid, filter) ==
    /\ api' = [op |-> "select", uid |-> uid, target |-> filter,
               rows |-> {o \in filter \cap DOMAIN profiles : CanSelect(uid, o)}, error |-> ""]
    /\ UNCHANGED <<profiles, appVars, panelVars, authUsers, now>>

\* update profiles set (columns) where user_id = owner, as uid
ApiUpdate(uid, owner, columns) ==
    LET res == Update(uid, owner, columns) IN
    /\ profiles' = res.rows
    /\ api' = [op |-> "update", uid |-> uid, target |-> {owner},
               rows |-> {o \in {owner} : res.rows # profiles}, error |-> res.error]
    /\ UNCHANGED <<appVars, panelVars, authUsers, now>>

\* insert into profiles (user_id, email) values (owner, ...), as uid; user_id
\* is UNIQUE and handle_new_user has inserted the row of every account.
ApiInsert(uid, owner) ==
    /\ api' = [op |-> "insert", uid |-> uid, target |-> {owner}, rows |-> {},
               error |-> IF CanInsert(uid, owner)
                         THEN DuplicateKey
                         ELSE "new row violates row-level security policy"]
    /\ UNCHANGED <<profiles, appVars, panelVars, authUsers, now>>

\* upsert of (columns) on the row of owner, as uid
ApiUpsert(uid, owner, columns) ==
    LET res == Upsert(uid, [user_id |-> owner, columns |-> columns]) IN
    /\ profiles' = res.rows
    /\ api' = [op |-> "upsert", uid |-> uid, target |-> {owner},
               rows |-> {o \in {owner} : res.rows # profiles}, error |-> res.error]
    /\ UNCHANGED <<appVars, panelVars, authUsers, now>>

\* delete from profiles where user_id = owner, as uid
ApiDelete(uid, owner) ==
    LET deleted == {o \in {owner} \cap DOMAIN profiles : CanDelete(uid, o)} IN
    /\ profiles' = [o \in DOMAIN profiles \ deleted |-> profiles[o]]
    /\ api' = [op |-> "delete", uid |-> uid, target |-> {owner},
               rows |-> deleted, error |-> ""]
    /\ UNCHANGED <<appVars, panelVars, authUsers, now>>

\* The AdminPanel component unmounts, or mounts with its useState initial values.
PanelReset(s) ==
    /\ userRole' = [userRole EXCEPT ![s] = NULL]
    /\ adminProfiles' = [adminProfiles EXCEPT ![s] = {}]

\* The route /admin is opened from the dashboard.
OpenAdmin(s) ==
    /\ page[s] = "/"
    /\ Navigate(s, "/admin") /\ PanelReset(s)
    /\ Quiet(s)
    /\ UNCHANGED <<profiles, user, saveVars, uploadPc, api, authUsers, now>>

\* AdminPanel: checkAdminAccess up to the call of loadProfiles; ok: the
\* select of the caller's role returned its row.
CheckAdminAccess(s) ==
    /\ page[s] = "/admin" /\ load[s] = "pending"
    /\ \E ok \in BOOLEAN :
          IF ~ok \/ profiles[user[s]].role # "admin"
          THEN /\ toast' = [toast EXCEPT ![s] =
                              Toast("Access Denied", "You don't have admin privileges")]
               /\ Navigate(s, "/") /\ PanelReset(s)
          ELSE /\ userRole' = [userRole EXCEPT ![s] = profiles[user[s]].role]
               /\ load' = [load EXCEPT ![s] = "checked"]
               /\ Quiet(s)
               /\ UNCHANGED <<page, dashSubmitted, formVars, profileData, isSubmitting, dialogOpen,
                              isUploading, adminProfiles>>
    /\ UNCHANGED <<profiles, user, saveVars, uploadPc, api, authUsers, now>>

\* AdminPanel: loadProfiles; ok: the select was answered. The rows are those
\* with is_form_submitted = true that the select policies let through.
LoadProfiles(s) ==
    /\ page[s] = "/admin" /\ load[s] = "checked"
    /\ load' = [load EXCEPT ![s] = "done"]
    /\ \E ok \in BOOLEAN :
          IF ok
          THEN /\ adminProfiles' = [adminProfiles EXCEPT ![s] =
                      {o \in DOMAIN profiles :
                          profiles[o].is_form_submitted /\ CanSelect(user[s], o)}]
               /\ Quiet(s)
          ELSE /\ toast' = [toast EXCEPT ![s] = Toast("Error", NetworkError)]
               /\ UNCHANGED adminProfiles
    /\ UNCHANGED <<profiles, user, page, dashSubmitted, formVars, profileData, isSubmitting, dialogOpen,
                   isUploading, saveVars, uploadPc, api, userRole, authUsers, now>>

\* AdminPanel: the Back to Dashboard button, shown once userRole is 'admin'.
LeaveAdmin(s) ==
    /\ page[s] = "/admin" /\ userRole[s] = "admin" /\ load[s] = "done"
    /\ Navigate(s, "/") /\ PanelReset(s)
    /\ Quiet(s)
    /\ UNCHANGED <<profiles, user, saveVars, uploadPc, api, authUsers, now>>

\* The sessions that open the admin panel.
Panels == {"s1"}

NextPolicy ==
    \/ \E uid \in Callers :
          \/ \E filter \in SUBSET Users \ {{}} : ApiSelect(uid, filter)
          \/ \E owner \in Users, columns \in ApiColumns : ApiUpdate(uid, owner, columns)
          \/ \E owner \in Users : ApiInsert(uid, owner)
          \/ \E owner \in Users, columns \in ApiColumns : ApiUpsert(uid, owner, columns)
          \/ \E owner \in Users : ApiDelete(uid, owner)
    \/ \E s \in Panels :
          \/ OpenAdmin(s)
          \/ CheckAdminAccess(s)
          \/ LoadProfiles(s)
          \/ LeaveAdmin(s)

SpecPolicy == Init /\ [][NextPolicy]_vars

----------------------------------------------------------------------------
\* Time

\* now() moves on.
Tick ==
    /\ now < MaxTime
    /\ now' = now + 1
    /\ UNCHANGED <<profiles, appVars, panelVars, api, authUsers>>

\* The sessions that use the portal while time passes.
Timed == {"s1"}

\* The portal used from one browser session while the clock of the database runs.
NextClock ==
    \/ Tick
    \/ \E s \in Timed :
          \/ DashLoad(s)
          \/ HandleRegisterClick(s)
          \/ RegLoad(s)
          \/ \E typed \in Step1Inputs : OnStep1Submit(s, typed)
          \/ \E typed \in Step2Inputs : OnStep2Submit(s, typed)
          \/ Previous(s)
          \/ BackToDashboard(s)
          \/ ReviewLoad(s)
          \/ EditInformation(s)
          \/ OpenDialog(s)
          \/ CancelDialog(s)
          \/ HandleSave(s)
          \/ GenFirst(s)
          \/ GenWhile(s)
          \/ RpcError(s)
          \/ UpdateProfile(s)

SpecClock == Init /\ [][NextClock]_vars

----------------------------------------------------------------------------
\* The registration carried through

\* The sessions whose user registers in one go.
Applicants == {"s1"}

\* The profile of u is as handle_new_user created it: no step saved, not submitted.
Fresh(u) == profiles[u].form_step = 0 /\ ~profiles[u].is_form_submitted

\* The step of session s reports neither a failed request nor a redirect.
NoFailure(s) == toast'[s].title \notin {"Error", "Incomplete Form"}

\* What session s does next when its user, starting on a fresh profile, saves a
\* valid Step 1 and a valid Step 2, opens the review and confirms, and no request fails.
CarryThrough(s) ==
    \/ DashLoad(s)
    \/ Fresh(user[s]) /\ HandleRegisterClick(s)
    \/ RegLoadWith(s, TRUE)
    \/ \E typed \in Step1Inputs :
          OnStep1Submit(s, typed) /\ Step1Valid(step1Form'[s]) /\ NoFailure(s)
    \/ \E typed \in Step2Inputs :
          Step2Valid(Step2Data(s, typed)) /\ OnStep2Submit(s, typed) /\ NoFailure(s)
    \/ ReviewLoad(s) /\ NoFailure(s)
    \/ OpenDialog(s)
    \/ HandleSave(s)
    \/ GenFirst(s)
    \/ GenWhile(s)
    \/ UpdateProfile(s) /\ NoFailure(s)

NextHappy ==
    \/ Tick
    \/ \E s \in Applicants : CarryThrough(s)

\* The event loop runs every effect and continuation that is due, and the user
\* goes on to the next step of the sequence.
SpecHappy ==
    Init /\ [][NextHappy]_vars /\ \A s \in Applicants : WF_vars(CarryThrough(s))

----------------------------------------------------------------------------
\* The issuer under a fair random()

\* The identifiers random() can make the issuer build.
IdSpace == {Generate(draw) : draw \in Draws}

\* generate_user_pass_id: a test of the WHILE condition that finds the
\* candidate in a profile, after which the loop body builds Generate(draw).
Redraw(s, draw) ==
    /\ IdExists(result[s])
    /\ GenWhile(s)
    /\ result'[s] = Generate(draw)

\* Registrations from two browser sessions, the requests of the form and of
\* the issuer reaching the database.
NextIssuer ==
    \E s \in Sessions :
        \/ DashLoad(s)
        \/ HandleRegisterClick(s)
        \/ RegLoadWith(s, TRUE)
        \/ \E typed \in Step1Inputs :
              OnStep1Submit(s, typed) /\ Step1Valid(step1Form'[s]) /\ NoFailure(s)
        \/ \E typed \in Step2Inputs :
              Step2Valid(Step2Data(s, typed)) /\ OnStep2Submit(s, typed) /\ NoFailure(s)
        \/ ReviewLoad(s)
        \/ OpenDialog(s)
        \/ HandleSave(s)
        \/ GenFirst(s)
        \/ GenWhile(s)
        \/ UpdateProfile(s)

\* The database runs a function that was called, and random() gives every
\* value again and again to a loop that keeps asking.
SpecIssuer ==
    /\ Init /\ [][NextIssuer]_vars
    /\ \A s \in Sessions :
          /\ WF_vars(GenFirst(s)) /\ WF_vars(GenWhile(s))
          /\ \A draw \in Draws : SF_vars(Redraw(s, draw))

----------------------------------------------------------------------------
\* Accounts

\* A trigger function that inserts no profile.
HandleNewUser_Nothing(u) == profiles

\* handle_new_user: INSERT INTO public.profiles (user_id, email) VALUES (NEW.id, NEW.email)
HandleNewUser(u) ==
    [o \in DOMAIN profiles \cup {u} |-> IF o = u THEN NewProfile(u) ELSE profiles[o]]

\* An account is created: the insert into auth.users fires on_auth_user_created.
\* user_id is UNIQUE: were there a profile of u, the insert of the trigger
\* would fail and the account would not be created.
SignUp(u) ==
    /\ u \notin authUsers /\ u \notin DOMAIN profiles
    /\ authUsers' = authUsers \cup {u}
    /\ profiles' = HandleNewUser(u)
    /\ UNCHANGED <<appVars, panelVars, api, now>>

\* No account exists yet.
InitAccounts ==
    /\ InitSessions
    /\ authUsers = {}
    /\ profiles = [u \in {} |-> NewProfile(u)]

\* The user of the session has an account.
SignedIn(s) == user[s] \in authUsers

\* Accounts are created while the users that have one fill in the form.
NextAccounts ==
    \/ \E u \in Users : SignUp(u)
    \/ \E s \in Sessions :
          \/ SignedIn(s) /\ DashLoad(s)
          \/ SignedIn(s) /\ HandleRegisterClick(s)
          \/ SignedIn(s) /\ RegLoad(s)
          \/ \E typed \in Step1Inputs : SignedIn(s) /\ OnStep1Submit(s, typed)
          \/ \E typed \in Step2Inputs : SignedIn(s) /\ OnStep2Submit(s, typed)
          \/ SignedIn(s) /\ Previous(s)
          \/ SignedIn(s) /\ BackToDashboard(s)

SpecAccounts == InitAccounts /\ [][NextAccounts]_vars

----------------------------------------------------------------------------
\* Properties

\* The step is the commit of session s's submission.
Submits(s) == pc[s] = "update" /\ pc'[s] = "idle" /\ toast'[s].title = "Success!"

\* The step ends session s's handleSave in its catch block.
Fails(s) == pc[s] # "idle" /\ pc'[s] = "idle" /\ toast'[s].title # "Success!"

\* Another user's profile holds the candidate session s is about to write.
Conflicts(s) == \E v \in Users \ {user[s]} : profiles[v].user_pass_id = passIdData[s]

\* C1: in every reachable state no two profiles hold the same non-null pass_id.
C1_PassIdsDistinct ==
    \A u, v \in Users :
        (u # v /\ profiles[u].user_pass_id # NoText)
            => profiles[u].user_pass_id # profiles[v].user_pass_id

\* Both users have submitted and hold an identifier.
C1_Witness ==
    \A u \in Users : profiles[u].is_form_submitted /\ profiles[u].user_pass_id # NoText

\* C2: when a submission's update carries a candidate that another user's
\* profile already holds (both passed the existence check with it), the update
\* is rejected: the table is unchanged and the session is told of the error; so
\* of two submissions holding the same candidate at most one commits it.
C2_SameCandidateOneCommit ==
    [][\A s \in Sessions :
          (pc[s] = "update" /\ pc'[s] # "update" /\ Conflicts(s))
              => /\ profiles' = profiles
                 /\ toast'[s].title = "Error"
                 /\ ~Submits(s)]_vars

\* Two sessions of different users drew the same candidate; one committed it
\* and the other has just been rejected with the duplicate-key error.
C2_Witness ==
    \E s, t \in Sessions :
        /\ user[s] # user[t]
        /\ toast[t].description = DuplicateKey
        /\ passIdData[t] # NoText
        /\ passIdData[t] = profiles[user[s]].user_pass_id
        /\ profiles[user[t]].user_pass_id # passIdData[t]

\* C3: once a profile's pass_id is non-null, no step changes it.
C3_PassIdImmutable ==
    [][\A u \in Users :
          profiles[u].user_pass_id # NoText
              => profiles'[u].user_pass_id = profiles[u].user_pass_id]_vars

\* C4: in every reachable state is_submitted implies a non-null pass_id.
C4_SubmittedHasPassId ==
    \A u \in Users : profiles[u].is_form_submitted => profiles[u].user_pass_id # NoText

\* A submission has committed and its session is back on the dashboard.
C4_Witness ==
    \E s \in Sessions :
        /\ toast[s].title = "Success!"
        /\ profiles[user[s]].is_form_submitted
        /\ profiles[user[s]].user_pass_id = toast[s].id

\* C5: once a profile is submitted, no step changes any of its form fields.
C5_SubmittedFieldsFrozen ==
    [][\A u \in Users :
          profiles[u].is_form_submitted
              => Project(profiles'[u], FormFields) = Project(profiles[u], FormFields)]_vars

\* C6: a loadProfile that reads a submitted profile leaves the session neither
\* in the editable form nor in the review with its confirm action.
C6_SubmittedIsTerminal ==
    [][\A s \in Sessions :
          ( /\ page[s] \in {"/register", "/review"}
            /\ load[s] = "pending"
            /\ <<page[s], load[s]>> # <<page'[s], load'[s]>>
            /\ profiles[user[s]].is_form_submitted )
              => /\ ~(page'[s] = "/register" /\ load'[s] = "done")
                 /\ ~(page'[s] = "/review" /\ profileData'[s] # NoProfile)]_vars

\* C7: the persisted form_step of a profile never decreases.
C7_FormStepMonotone ==
    [][\A u \in Users : profiles'[u].form_step >= profiles[u].form_step]_vars

\* C8: a submission commits only on a profile whose persisted form_step is
\* at least 2 at that moment.
C8_CommitNeedsStep2 ==
    [][\A s \in Sessions : Submits(s) => profiles[user[s]].form_step >= 2]_vars

MeetsStep1Rules(d) ==
    /\ IsEmail(d.email)
    /\ Len(d.name) >= 2
    /\ Len(d.contact) >= 10
    /\ d.gender \in {"male", "female", "other"}
    /\ d.dob # ""

\* The rules a Step-2 input has to meet: age in [18,100], a district, a
\* category of the enumeration, a qualification.
MeetsStep2Rules(d) ==
    /\ d.age \in 18..100
    /\ d.district # ""
    /\ d.category \in {"Open", "OBC", "SC", "ST", "VJNT", "SEBC", "SBC"}
    /\ d.highest_qualification # ""

\* The toast of a step save that the persistence layer refused or that did not reach it.
SaveFailed(s) == toast'[s].title = "Error"

\* The toast of a step save that committed.
SaveSucceeded(s) == toast'[s].title = "Success"

\* C11: a Step-1 save whose persistence call fails leaves the controller on
\* Step 1, and a failed Step-2 save leaves it on Step 2 of the form.
C11_FailedSaveAbortsTransition ==
    [][\A s \in Sessions :
          /\ \A typed \in Step1Inputs :
                (OnStep1Submit(s, typed) /\ SaveFailed(s))
                    => page'[s] = "/register" /\ currentStep'[s] = 1
          /\ \A typed \in Step2Inputs :
                (OnStep2Submit(s, typed) /\ SaveFailed(s))
                    => page'[s] = "/register" /\ currentStep'[s] = 2]_vars

\* The profiles after the save of `data` as step n by session s committed whole.
Saved(s, data, n) ==
    [profiles EXCEPT ![user[s]] =
        [f \in DOMAIN @ |-> IF f = "form_step" THEN n
                             ELSE IF f = "updated_at" THEN now
                             ELSE IF f \in DOMAIN data THEN data[f] ELSE @[f]]]

\* C12: a step save either writes every field of its field set together with
\* form_step, or writes nothing; a failed save leaves the table as it was.
C12_SaveAllOrNothing ==
    [][\A s \in Sessions :
          /\ \A typed \in Step1Inputs :
                OnStep1Submit(s, typed)
                    => /\ profiles' \in {profiles, Saved(s, Step1Data(s, typed), 1)}
                       /\ SaveFailed(s) => profiles' = profiles
          /\ \A typed \in Step2Inputs :
                OnStep2Submit(s, typed)
                    => /\ profiles' \in {profiles,
                                         Saved(s, CompleteData(s, Step2Data(s, typed)), 2)}
                       /\ SaveFailed(s) => profiles' = profiles]_vars

\* A Step-1 save has just failed on a profile that is still as created.
C12_Witness ==
    \E s \in Sessions :
        /\ page[s] = "/register"
        /\ toast[s] = Toast("Error", NetworkError)
        /\ Step1Valid(step1Form[s])
        /\ profiles[user[s]] = NewProfile(user[s])

\* C13: a Step-1 save of an input that meets the rules, when it commits,
\* leaves form_step = 1 and the five Step-1 fields equal to the input.
C13_Step1SavePersistsInput ==
    [][\A s \in Sessions : \A typed \in Step1Inputs :
          (OnStep1Submit(s, typed) /\ MeetsStep1Rules(Step1Data(s, typed))
              /\ SaveSucceeded(s))
              => /\ profiles'[user[s]].form_step = 1
                 /\ Project(profiles'[user[s]], Step1Fields) = Step1Data(s, typed)]_vars

\* A valid Step-1 input has just been saved.
C13_Witness ==
    \E s \in Sessions :
        /\ toast[s] = Toast("Success", "Step 1 saved successfully")
        /\ profiles[user[s]].form_step = 1
        /\ profiles[user[s]].name = "Asha Rao"
        /\ profiles[user[s]].contact = "9876543210"

\* C14: a submit of an input that breaks a rule makes no persistence call:
\* the table is unchanged, no save toast is raised and the step stays.
C14_InvalidInputNotSaved ==
    [][\A s \in Sessions :
          /\ \A typed \in Step1Inputs :
                (OnStep1Submit(s, typed) /\ ~MeetsStep1Rules(Step1Data(s, typed)))
                    => /\ profiles' = profiles
                       /\ toast'[s] = NoToast
                       /\ page'[s] = "/register" /\ currentStep'[s] = 1
          /\ \A typed \in Step2Inputs :
                (OnStep2Submit(s, typed) /\ ~MeetsStep2Rules(Step2Data(s, typed)))
                    => /\ profiles' = profiles
                       /\ toast'[s] = NoToast
                       /\ page'[s] = "/register" /\ currentStep'[s] = 2]_vars

\* One session has submitted a contact of length 5 and another an age of 17.
C14_Witness ==
    /\ \E s \in Sessions :
          /\ page[s] = "/register" /\ currentStep[s] = 1
          /\ Len(step1Form[s].contact) = 5
    /\ \E s \in Sessions :
          /\ page[s] = "/register" /\ currentStep[s] = 2
          /\ step2Form[s].age = 17

\* C15: a Step-2 save of an input that meets the rules, when it commits,
\* leaves form_step = 2, the Step-2 fields equal to the input and the Step-1
\* fields equal to the session's Step-1 values, which meet the Step-1 rules.
C15_Step2SavePersistsMerged ==
    [][\A s \in Sessions : \A typed \in Step2Inputs :
          (OnStep2Submit(s, typed) /\ MeetsStep2Rules(Step2Data(s, typed))
              /\ SaveSucceeded(s))
              => /\ profiles'[user[s]].form_step = 2
                 /\ Project(profiles'[user[s]], Step2Fields) = Step2Data(s, typed)
                 /\ Project(profiles'[user[s]], Step1Fields) = step1Form[s]
                 /\ MeetsStep1Rules(step1Form[s])]_vars

\* A Step-2 save has just committed and the session is on its way to the review.
C15_Witness ==
    \E s \in Sessions :
        /\ toast[s] = Toast("Success", "Step 2 saved successfully")
        /\ page[s] = "/review"
        /\ profiles[user[s]].form_step = 2
        /\ profiles[user[s]].district = "Pune"
        /\ profiles[user[s]].name \in {"Asha Rao", "Asha R"}

\* C16: a Step-1 save of the values already persisted changes neither
\* form_step nor pass_id.
C16_ResaveStep1Idempotent ==
    [][\A s \in Sessions : \A typed \in Step1Inputs :
          (OnStep1Submit(s, typed)
              /\ Step1Data(s, typed) = Project(profiles[user[s]], Step1Fields))
              => /\ profiles'[user[s]].form_step = profiles[user[s]].form_step
                 /\ profiles'[user[s]].user_pass_id = profiles[user[s]].user_pass_id]_vars

\* C17: a load of the form sets the step from form_step alone (0 or 1:
\* Step 1, 2: Step 2) and puts every persisted field back into the two forms.
C17_ResumeFromProfile ==
    [][\A s \in Sessions :
          RegLoad(s)
              => LET p == profiles[user[s]] IN
                 /\ currentStep'[s] = (IF p.form_step = 2 THEN 2 ELSE 1)
                 /\ p.email # NoText => step1Form'[s].email = p.email
                 /\ \A f \in Step1Fields \ {"email"} :
                       p[f] # NULL => step1Form'[s][f] = p[f]
                 /\ \A f \in Step2Fields \ {"age"} :
                       p[f] # NULL => step2Form'[s][f] = p[f]
                 /\ step2Form'[s].age = p.age]_vars

\* The same for the loads whose read returned the profile.
C17_ResumeWhenRead ==
    [][\A s \in Sessions :
          RegLoadWith(s, TRUE)
              => LET p == profiles[user[s]] IN
                 /\ currentStep'[s] = (IF p.form_step = 2 THEN 2 ELSE 1)
                 /\ p.email # NoText => step1Form'[s].email = p.email
                 /\ \A f \in Step1Fields \ {"email"} :
                       p[f] # NULL => step1Form'[s][f] = p[f]
                 /\ \A f \in Step2Fields \ {"age"} :
                       p[f] # NULL => step2Form'[s][f] = p[f]
                 /\ step2Form'[s].age = p.age]_vars

\* C18: the Previous button changes the session's current step and nothing
\* of the table, the forms or the route.
C18_PreviousOnlyMovesStep ==
    [][\A s \in Sessions :
          Previous(s)
              => /\ profiles' = profiles
                 /\ currentStep'[s] = 1
                 /\ step1Form' = step1Form /\ step2Form' = step2Form
                 /\ page' = page]_vars

\* A session went back to Step 1 on a profile whose form_step is 2.
C18_Witness ==
    \E s \in Sessions :
        /\ page[s] = "/register" /\ load[s] = "done" /\ currentStep[s] = 1
        /\ toast[s] = NoToast
        /\ profiles[user[s]].form_step = 2
        /\ step2Form[s].district = "Pune"

\* C19: Step 2 is not submitted, and the session does not go to the review,
\* while the form's photo upload is in flight.
C19_UploadBlocksStep2 ==
    [][\A s \in Sessions :
          /\ \A typed \in Step2Inputs :
                (OnStep2Submit(s, typed) /\ MeetsStep2Rules(Step2Data(s, typed)))
                    => ~isUploading[s]
          /\ (page[s] = "/register" /\ page'[s] = "/review") => ~isUploading[s]]_vars

\* C20: a request of an identity that is not an admin gets no row of another
\* user's profile from a read, and its update, insert or upsert of another
\* user's profile writes nothing.
C20_OnlyOwnProfile ==
    [][\A uid \in Users :
          ~IsAdmin(uid) =>
             /\ \A filter \in SUBSET Users \ {{}} :
                   ApiSelect(uid, filter) => api'.rows \subseteq {uid}
             /\ \A owner \in Users \ {uid} :
                   /\ \A columns \in ApiColumns :
                         (ApiUpdate(uid, owner, columns) \/ ApiUpsert(uid, owner, columns))
                             => profiles' = profiles /\ api'.rows = {}
                   /\ ApiInsert(uid, owner)
                         => profiles' = profiles /\ api'.rows = {} /\ api'.error # ""]_vars

\* A user who is no admin asked for every profile and got their own only.
C20_Witness ==
    /\ api.op = "select" /\ api.target = Users
    /\ api.rows = {api.uid}
    /\ profiles[api.uid].role = "user"
    /\ \E o \in Users \ {api.uid} : profiles[o].is_form_submitted

\* C21: a profile's role does not become admin by a write of its owner: the
\* update or upsert by which a non-admin sets role = admin on its own row is
\* rejected and leaves the table unchanged.
C21_NoSelfServiceAdmin ==
    [][\A uid \in Users :
          profiles[uid].role # "admin" =>
             /\ (ApiUpdate(uid, uid, [role |-> "admin"])
                    \/ ApiUpsert(uid, uid, [role |-> "admin"]))
                   => profiles' = profiles /\ api'.rows = {}
             /\ api'.uid = uid => profiles'[uid].role # "admin"]_vars

\* C22: a read by an identity whose own profile has role = admin returns
\* every profile it asks for, and an update or upsert by it of another
\* user's profile writes nothing.
C22_AdminReadsAllWritesOwn ==
    [][\A uid \in Users :
          profiles[uid].role = "admin" =>
             /\ \A filter \in SUBSET Users \ {{}} :
                   ApiSelect(uid, filter) => api'.rows = filter /\ api'.error = ""
             /\ \A owner \in Users \ {uid} : \A columns \in ApiColumns :
                   (ApiUpdate(uid, owner, columns) \/ ApiUpsert(uid, owner, columns))
                       => profiles' = profiles /\ api'.rows = {}]_vars

\* An admin asked for every profile and got them all, each marked as
\* submitted by its owner before.
C22_Witness ==
    /\ api.op = "select" /\ api.target = Users /\ api.rows = Users
    /\ profiles[api.uid].role = "admin"
    /\ \A o \in Users : profiles[o].is_form_submitted

\* C23: a read by an identity whose role is no longer admin returns no
\* profile of another user, whatever its admin panel still holds from the
\* time it was admin: the panel's own reads are refused as well.
C23_AdminRuleReevaluated ==
    [][\A s \in Sessions :
          (profiles[user[s]].role # "admin" /\ userRole[s] = "admin") =>
             /\ \A filter \in SUBSET Users \ {{}} :
                   ApiSelect(user[s], filter) => api'.rows \subseteq {user[s]}
             /\ LoadProfiles(s) => adminProfiles'[s] \subseteq {user[s]}]_vars

\* An identity that loaded every registration as admin, and is no admin any
\* more, asked for every profile and got its own only.
C23_Witness ==
    \E s \in Sessions :
        /\ userRole[s] = "admin" /\ adminProfiles[s] = Users
        /\ profiles[user[s]].role = "user"
        /\ api.op = "select" /\ api.uid = user[s] /\ api.target = Users
        /\ api.rows = {user[s]}

\* C24: an operation no rule lets through writes nothing and returns no row:
\* a delete by any caller, any operation of a caller without identity, and
\* an insert with another user's user_id; no step removes a profile.
C24_DeniedByDefault ==
    [][/\ \A uid \in Callers, owner \in Users :
             ApiDelete(uid, owner) => profiles' = profiles /\ api'.rows = {}
       /\ \A owner \in Users :
             /\ \A filter \in SUBSET Users \ {{}} :
                   ApiSelect(Anon, filter) => api'.rows = {}
             /\ \A columns \in ApiColumns :
                   (ApiUpdate(Anon, owner, columns) \/ ApiUpsert(Anon, owner, columns))
                       => profiles' = profiles /\ api'.rows = {}
             /\ \A uid \in Callers \ {owner} :
                   ApiInsert(uid, owner) => profiles' = profiles /\ api'.error # ""
       /\ DOMAIN profiles' = DOMAIN profiles]_vars

\* A user asked for the delete of its own profile, which is still there.
C24_Witness ==
    /\ api.op = "delete" /\ api.target = {api.uid} /\ api.rows = {}
    /\ api.uid \in DOMAIN profiles
    /\ profiles[api.uid].is_form_submitted

\* C25: every account has its profile and there is no profile without an
\* account; the profile is there from the creation of the account on, with
\* form_step 0, not submitted, without pass id and with role user, and a
\* step save adds no profile. (user_id is UNIQUE: the table is a function of it.)
C25_OneProfilePerAccount ==
    /\ [](DOMAIN profiles = authUsers)
    /\ [][/\ \A u \in Users :
               SignUp(u) =>
                  /\ u \in DOMAIN profiles'
                  /\ profiles'[u].form_step = 0
                  /\ ~profiles'[u].is_form_submitted
                  /\ profiles'[u].user_pass_id = NoText
                  /\ profiles'[u].role = "user"
          /\ \A s \in Sessions :
               (\/ \E typed \in Step1Inputs : SignedIn(s) /\ OnStep1Submit(s, typed)
                \/ \E typed \in Step2Inputs : SignedIn(s) /\ OnStep2Submit(s, typed))
                  => DOMAIN profiles' = DOMAIN profiles]_vars

\* Both accounts exist, each with its profile, one of them saved up to Step 2
\* and the other as created.
C25_Witness ==
    /\ authUsers = Users /\ DOMAIN profiles = Users
    /\ \E u, v \in Users : profiles[u].form_step = 2 /\ profiles[v] = NewProfile(v)

\* The characters A-Z and 0-9.
Alphabet ==
    { "A", "B", "C", "D", "E", "F", "G", "H", "I", "J", "K", "L", "M",
      "N", "O", "P", "Q", "R", "S", "T", "U", "V", "W", "X", "Y", "Z",
      "0", "1", "2", "3", "4", "5", "6", "7", "8", "9" }

\* id is 6 characters of the alphabet.
IsPassId(id) == Len(id) = 6 /\ \A i \in 1..Len(id) : id[i] \in Alphabet

\* C26: every value the issuer builds or returns, and every pass id a
\* submission persisted, is 6 characters long, each in A-Z or 0-9.
C26_PassIdFormat ==
    /\ \A draw \in Draws : IsPassId(Generate(draw))
    /\ \A s \in Sessions :
          /\ result[s] # NoText => IsPassId(result[s])
          /\ passIdData[s] # NoText => IsPassId(passIdData[s])
    /\ \A u \in DOMAIN profiles :
          profiles[u].user_pass_id # NoText => IsPassId(profiles[u].user_pass_id)

\* Two submissions persisted ids that end in the last and in the last but
\* one character of chars.
C26_Witness ==
    \E u, v \in DOMAIN profiles :
        /\ profiles[u].is_form_submitted /\ profiles[v].is_form_submitted
        /\ profiles[u].user_pass_id = <<"A", "A", "A", "A", "A", "9">>
        /\ profiles[v].user_pass_id = <<"A", "A", "A", "A", "A", "8">>

\* C27: the identifiers of calls to the issuer that are in flight together,
\* none of them persisted yet, are pairwise distinct.
C27_ConcurrentIdsDistinct ==
    \A s, t \in Sessions :
        (s # t /\ pc[s] = "update" /\ pc[t] = "update")
            => passIdData[s] # passIdData[t]

\* C28: a Step-1 save, a Step-2 save or a submission that commits leaves
\* the profile's updated_at at the database's current time, whatever
\* updated_at the client sent; updated_at of a profile never decreases, and
\* no profile changes without its updated_at being set to the current time.
C28_UpdatedAtRefreshed ==
    [][/\ \A s \in Sessions :
             (\/ \E typed \in Step1Inputs : OnStep1Submit(s, typed) /\ SaveSucceeded(s)
              \/ \E typed \in Step2Inputs : OnStep2Submit(s, typed) /\ SaveSucceeded(s)
              \/ UpdateProfile(s) /\ Submits(s))
                => profiles'[user[s]].updated_at = now
       /\ \A u \in DOMAIN profiles :
             /\ profiles'[u].updated_at >= profiles[u].updated_at
             /\ profiles'[u] # profiles[u] => profiles'[u].updated_at = now]_vars

\* A submission committed at the latest time, on a profile that was not
\* saved at that time, and the clock of no browser shows that time.
C28_Witness ==
    \E s \in Sessions :
        /\ toast[s].title = "Success!"
        /\ now = MaxTime /\ now \notin ClientTimes
        /\ profiles[user[s]].updated_at = now
        /\ profileData[s] = NoProfile
        /\ profiles[user[s]].is_form_submitted

\* Session t is another session of the user of session s, with the form open.
SameUserOnForm(s, t) ==
    t # s /\ user[t] = user[s] /\ page[t] = "/register" /\ load[t] = "done"

\* The request of the save by session s reached the persistence layer.
Reached(s) == toast'[s].description # NetworkError

\* C29: while two sessions of one user have the form open, a step save of
\* either that reaches the persistence layer succeeds without a conflict error
\* and leaves the profile with form_step and the whole field set of that save,
\* whatever the other session saved before (last write wins, no mixed fields).
C29_LastWriteWins ==
    [][\A s \in Sessions : \A t \in Sessions :
          SameUserOnForm(s, t) =>
              /\ \A typed \in Step1Inputs :
                    (OnStep1Submit(s, typed) /\ MeetsStep1Rules(Step1Data(s, typed))
                        /\ Reached(s))
                        => /\ SaveSucceeded(s)
                           /\ profiles'[user[s]].form_step = 1
                           /\ Project(profiles'[user[s]], Step1Fields) = Step1Data(s, typed)
              /\ \A typed \in Step2Inputs :
                    (OnStep2Submit(s, typed) /\ MeetsStep2Rules(Step2Data(s, typed))
                        /\ Reached(s))
                        => /\ SaveSucceeded(s)
                           /\ profiles'[user[s]].form_step = 2
                           /\ Project(profiles'[user[s]], FormFields)
                                  = [f \in FormFields |->
                                        IF f \in Step2Fields THEN Step2Data(s, typed)[f]
                                        ELSE step1Form[s][f]]]_vars

\* Two sessions of one user have both saved Step 1, with different names, and
\* the profile holds the name of the second session and not the first's.
C29_Witness ==
    /\ user["s1"] = user["s2"]
    /\ \A s \in Sessions :
          /\ page[s] = "/register" /\ currentStep[s] = 2
          /\ toast[s] = Toast("Success", "Step 1 saved successfully")
    /\ step1Form["s1"].name # step1Form["s2"].name
    /\ Project(profiles[user["s2"]], Step1Fields) = step1Form["s2"]
    /\ profiles[user["s2"]].form_step = 1

\* The profile of u is submitted after Step 2, with a pass id of 6 characters of A-Z0-9.
Registered(u) ==
    /\ profiles[u].form_step = 2
    /\ profiles[u].is_form_submitted
    /\ IsPassId(profiles[u].user_pass_id)

\* C30: from a fresh profile, a valid Step-1 save, a valid Step-2 save, the
\* review and the confirmation, with no request failing, take the profile to
\* form_step = 1, then to form_step = 2, both before it is submitted, and end
\* with form_step = 2, is_form_submitted and a pass id of 6 characters of A-Z0-9;
\* form_step never skips a value on the way.
C30_CarriedThrough ==
    /\ \A s \in Applicants :
          /\ Fresh(user[s])
          /\ Fresh(user[s]) ~> (profiles[user[s]].form_step = 1
                                   /\ ~profiles[user[s]].is_form_submitted)
          /\ (profiles[user[s]].form_step = 1)
                 ~> (profiles[user[s]].form_step = 2
                        /\ ~profiles[user[s]].is_form_submitted)
          /\ <>[]Registered(user[s])
    /\ [][\A s \in Applicants :
             profiles'[user[s]].form_step
                 \in {profiles[user[s]].form_step, profiles[user[s]].form_step + 1}]_vars

\* The confirmation has just succeeded for an applicant whose dashboard has
\* loaded again, and the profile is registered.
C30_Witness ==
    \E s \in Applicants :
        /\ page[s] = "/" /\ load[s] = "done" /\ dashSubmitted[s]
        /\ toast[s] = NoToast
        /\ Registered(user[s])
        /\ profiles[user[s]].name = "Asha R"

\* Session s has a submission attempt under way: the issuer call or the update.
Attempting(s) == pc[s] \in {"rpc", "while", "update"}

Persisted(id) == \E u \in Users : profiles[u].user_pass_id = id

\* The issuer call of session s returns in this step.
Returns(s) == pc[s] = "while" /\ pc'[s] = "update"

\* C32: the issuer returns a candidate only from a test that found it in no
\* profile, and what it returns is that candidate; a test that finds the
\* candidate in a profile returns nothing and leaves the call with a newly
\* generated candidate to be tested again.
C32_ReturnsUnusedCandidate ==
    [][\A s \in Sessions :
          /\ Returns(s) => ~Persisted(result[s]) /\ passIdData'[s] = result[s]
          /\ (GenWhile(s) /\ Persisted(result[s]))
                => /\ ~Returns(s) /\ pc'[s] = "while"
                   /\ passIdData'[s] = passIdData[s]
                   /\ \E draw \in Draws : result'[s] = Generate(draw)
          /\ (GenWhile(s) /\ ~Persisted(result[s])) => Returns(s)]_vars

\* One call has returned a candidate that no profile holds while the other
\* user's profile holds an identifier, and another call is about to test a
\* candidate that a profile holds.
C32_Witness ==
    \E s, t \in Sessions :
        /\ pc[s] = "update" /\ ~Persisted(passIdData[s])
        /\ \E u \in Users : profiles[u].user_pass_id # NoText
        /\ pc[t] = "while" /\ Persisted(result[t])

\* The issuer call of session s is running.
InCall(s) == pc[s] \in {"rpc", "while"}

\* Every identifier random() can build is some profile's pass id.
Exhausted == \A id \in IdSpace : Persisted(id)

\* C33: while some identifier of the space is in no profile, a call of the
\* issuer returns in the end, random() giving every identifier again and
\* again; a call does not return while every identifier is in a profile, and
\* once that is so it stays so.
C33_IssuerTerminates ==
    /\ \A s \in Sessions : InCall(s) ~> (pc[s] = "update" \/ Exhausted)
    /\ [][/\ \A s \in Sessions : Exhausted => ~Returns(s)
          /\ Exhausted => Exhausted']_vars

\* The pass id of every profile.
PassIds == [u \in Users |-> profiles[u].user_pass_id]

\* A call of the issuer returns in the end unless, while it runs, a profile
\* takes a new pass id or every identifier comes to be in a profile.
C33_ReturnsUnlessOvertaken ==
    \A s \in Sessions : \A T \in [Users -> IdSpace \cup {NoText}] :
        (InCall(s) /\ PassIds = T) ~> (pc[s] = "update" \/ PassIds # T \/ Exhausted)

\* C34: in every reachable state a submitted profile has form_step = 2.
C34_SubmittedHasStep2 ==
    \A u \in Users : profiles[u].is_form_submitted => profiles[u].form_step = 2

\* Every required Step-1 column of row holds a value, and the values meet the rules.
HoldsStep1(row) ==
    /\ \A f \in Step1Fields \ {"email"} : row[f] # NULL
    /\ row.email # NoText
    /\ MeetsStep1Rules(Project(row, Step1Fields))

\* Every required Step-2 column of row holds a value, and the values meet the rules.
HoldsStep2(row) ==
    /\ row.age # NoAge
    /\ \A f \in {"district", "category", "highest_qualification"} : row[f] # NULL
    /\ MeetsStep2Rules(Project(row, Step2Fields))

\* C35: a profile with form_step = 1 holds a valid value in every required
\* Step-1 field, and a profile with form_step = 2 in every required Step-1 and
\* Step-2 field; a Step-2 save that commits on a profile no Step-1 save
\* reached leaves both field sets valid.
C35_StepImpliesValidFields ==
    /\ [](\A u \in Users :
            /\ profiles[u].form_step = 1 => HoldsStep1(profiles[u])
            /\ profiles[u].form_step = 2
                  => HoldsStep1(profiles[u]) /\ HoldsStep2(profiles[u]))
    /\ [][\A s \in Sessions : \A typed \in Step2Inputs :
             (OnStep2Submit(s, typed) /\ SaveSucceeded(s)
                 /\ profiles[user[s]].form_step = 0)
                 => /\ profiles'[user[s]].form_step = 2
                    /\ HoldsStep1(profiles'[user[s]])
                    /\ HoldsStep2(profiles'[user[s]])]_vars

\* A Step-2 save has just committed and the profile holds both field sets,
\* while the other profile is still as created.
C35_Witness ==
    \E s \in Sessions :
        /\ page[s] = "/review" /\ load[s] = "pending"
        /\ toast[s] = Toast("Success", "Step 2 saved successfully")
        /\ profiles[user[s]].form_step = 2
        /\ HoldsStep1(profiles[user[s]]) /\ HoldsStep2(profiles[user[s]])
        /\ \E u \in Users : profiles[u].form_step = 0 /\ ~HoldsStep1(profiles[u])

\* Rows old and new differ in columns of fs at most; user_pass_id,
\* is_form_submitted and role are in no set of columns a step may write.
ChangesOnly(old, new, fs) ==
    /\ DOMAIN new = DOMAIN old
    /\ \A f \in DOMAIN old \ fs : new[f] = old[f]

\* C36: a Step-1 save changes, in the caller's profile, columns among the
\* Step-1 fields, form_step and updated_at only, and a Step-2 save columns
\* among the form's fields, form_step and updated_at only: the pass id, the
\* submitted flag and the role stay as they were, and so does every other profile.
C36_StepSaveFrame ==
    [][\A s \in Sessions :
          /\ \A typed \in Step1Inputs :
                OnStep1Submit(s, typed)
                    => /\ ChangesOnly(profiles[user[s]], profiles'[user[s]],
                                      Step1Fields \cup {"form_step", "updated_at"})
                       /\ \A u \in Users \ {user[s]} : profiles'[u] = profiles[u]
          /\ \A typed \in Step2Inputs :
                OnStep2Submit(s, typed)
                    => /\ ChangesOnly(profiles[user[s]], profiles'[user[s]],
                                      FormFields \cup {"form_step", "updated_at"})
                       /\ \A u \in Users \ {user[s]} : profiles'[u] = profiles[u]]_vars

\* A Step-1 save has just committed on a profile that is submitted and
\* holds a pass id, and the other user's profile holds one as well.
C36_Witness ==
    \E s \in Sessions :
        /\ toast[s] = Toast("Success", "Step 1 saved successfully")
        /\ profiles[user[s]].form_step = 1
        /\ profiles[user[s]].is_form_submitted
        /\ profiles[user[s]].user_pass_id # NoText
        /\ \E u \in Users \ {user[s]} : profiles[u].user_pass_id # NoText

\* C37: the update of a submission changes, in the caller's profile,
\* is_form_submitted, user_pass_id and updated_at only: every form field and
\* form_step stay as they were, and so does every other profile; the issuer's
\* steps and a failed update change no profile.
C37_SubmissionFrame ==
    [][\A s \in Sessions :
          /\ UpdateProfile(s)
                => /\ ChangesOnly(profiles[user[s]], profiles'[user[s]],
                                  {"is_form_submitted", "user_pass_id", "updated_at"})
                   /\ \A u \in Users \ {user[s]} : profiles'[u] = profiles[u]
                   /\ ~Submits(s) => profiles' = profiles
          /\ (HandleSave(s) \/ GenFirst(s) \/ GenWhile(s) \/ RpcError(s))
                => profiles' = profiles]_vars

\* A submission has committed on a profile that holds the Step-2 fields, and
\* whose form_step a Step-1 save has set to 1.
C37_Witness ==
    \E s \in Sessions :
        /\ toast[s].title = "Success!"
        /\ toast[s].id = profiles[user[s]].user_pass_id
        /\ profiles[user[s]].is_form_submitted
        /\ profiles[user[s]].form_step = 1
        /\ HoldsStep2(profiles[user[s]])

\* C38: when a submission commits, the form fields of the profile are the
\* ones the Review page of the confirming session loaded and showed.
C38_SubmitsWhatWasShown ==
    [][\A s \in Sessions :
          Submits(s) => Project(profiles'[user[s]], FormFields)
                           = Project(profileData[s], FormFields)]_vars

====
